---- MODULE Spec2Model ----
(***************************************************************************)
(* Model of the aws-iac-codescan command line tools                        *)
(*   src/kubernetes/scan.py  and  src/kubernetes-crossplane/scan.py.       *)
(*                                                                         *)
(* Four specifications share the module:                                   *)
(*   Spec         the command flow of one invocation of main(), one step   *)
(*                per stage, in a working directory empty or used before;  *)
(*   SpecRuns     the same steps over repeated invocations that share a    *)
(*                working directory;                                       *)
(*   SpecFind     find_yaml_files applied to directory trees that grow     *)
(*                entry by entry up to a bound;                            *)
(*   SpecSummary  generate_summary_markdown applied to bounded reports.    *)
(***************************************************************************)
EXTENDS Integers, Sequences, FiniteSets, TLC

VARIABLES
    variant,     \* which scan.py runs: "kubernetes" or "crossplane"
    pc,          \* position of the process in main()
    args,        \* argparse.Namespace: dry_run, render_only, render, debug
    env,         \* what the invocation finds: target kind, installed tools
    tree,        \* the directory tree below --target (empty when no directory)
    yaml_files,  \* main(): result of find_yaml_files
    now,         \* the wall clock, in seconds
    fs,          \* the working directory: rendered_output/, checkov_output/
    fsStart,     \* the working directory as the invocation found it
    output_dir,  \* render_kustomize: timestamp of render-<timestamp>, as a set
    rc,          \* run_checkov_scan: result.returncode, as a set
    exitCode,    \* process exit status, as a set (empty while running)
    log,         \* logging calls of the invocation, in order
    stderr,      \* tracebacks of uncaught exceptions
    events,      \* stages the invocation has entered, in order
    json_data,   \* SpecSummary: the report handed to generate_summary_markdown
    md           \* SpecSummary: the summary it wrote, as a set

vars == <<variant, pc, args, env, tree, yaml_files, now, fs, fsStart,
          output_dir, rc, exitCode, log, stderr, events, json_data, md>>

(***************************************************************************)
(* Bounds of the model.                                                    *)
(***************************************************************************)
MaxNodes == 3        \* entries below base_path in a directory tree
MaxChecks == 2       \* checks per list and per counter of a report
MaxTime == 1         \* the clock runs over 0..MaxTime

(***************************************************************************)
(* Generic helpers.                                                        *)
(***************************************************************************)
\* An optional value is a set with at most one element.
None == {}
Some(x) == {x}
The(s) == CHOOSE x \in s : TRUE
Get(s, default) == IF s = {} THEN default ELSE The(s)

Min(S) == CHOOSE x \in S : \A y \in S : x <= y

RECURSIVE SortedSeq(_)
SortedSeq(S) == IF S = {} THEN <<>>
                ELSE LET m == Min(S) IN <<m>> \o SortedSeq(S \ {m})

RECURSIVE Count(_, _)
Count(s, e) == IF s = <<>> THEN 0
               ELSE (IF Head(s) = e THEN 1 ELSE 0) + Count(Tail(s), e)

Range(s) == {s[i] : i \in 1..Len(s)}

(***************************************************************************)
(* File names and directory trees.                                         *)
(* A name is a sequence of characters. A tree holds nodes 1..n below the   *)
(* root 0 (base_path); every node has a parent directory, a kind and a     *)
(* name, and sibling names are distinct.                                   *)
(***************************************************************************)
DotYaml == <<".", "y", "a", "m", "l">>
DotYml == <<".", "y", "m", "l">>

Names == { <<"a">> \o DotYaml,           \* a.yaml
           DotYml,                       \* .yml
           <<"y", "a", "m", "l">>,       \* yaml   (no dot)
           <<"a", ".", "Y", "M", "L">>,  \* a.YML  (upper case)
           <<"a">> \o DotYaml \o <<"~">> \* a.yaml~
         }

\* "file": anything os.walk lists under filenames; "dir": a directory;
\* "dirlink": a symbolic link to a directory.
Kinds == {"file", "dir", "dirlink"}

EmptyTree == [n |-> 0, parent |-> <<>>, kind |-> <<>>, name |-> <<>>]

Dirs(t) == {0} \cup {d \in 1..t.n : t.kind[d] = "dir"}
Children(t, d) == {c \in 1..t.n : t.parent[c] = d}

AddEntry(t, p, k, nm) ==
    [n |-> t.n + 1, parent |-> Append(t.parent, p),
     kind |-> Append(t.kind, k), name |-> Append(t.name, nm)]

\* Whether directory p of the tree can take a new entry named nm.
CanAdd(t, p, nm) ==
    /\ p \in Dirs(t)
    /\ \A c \in Children(t, p) : t.name[c] # nm

(***************************************************************************)
(* find_yaml_files                                                         *)
(***************************************************************************)
\* str.endswith(suffix)
EndsWith(s, suffix) ==
    /\ Len(s) >= Len(suffix)
    /\ SubSeq(s, Len(s) - Len(suffix) + 1, Len(s)) = suffix

\* A plausible slip: only the long extension is matched.
IsYamlNameOnlyYaml(filename) == EndsWith(filename, DotYaml)

\* filename.endswith(('.yaml', '.yml'))
IsYamlName(filename) == EndsWith(filename, DotYaml) \/ EndsWith(filename, DotYml)

\* os.path.join(root, filename): a path is the sequence of its components
\* below base_path.
PathJoin(root, filename) == Append(root, filename)

RECURSIVE Flatten(_)
Flatten(ss) == IF ss = <<>> THEN <<>> ELSE Head(ss) \o Flatten(Tail(ss))

\* os.walk(top) followed by the loop of find_yaml_files: the matching files of
\* the directory itself, then the walk of each sub-directory. os.walk lists a
\* link to a directory among the directories and does not descend into it
\* (followlinks is False). Entries are taken in node order; the order of
\* os.scandir is the operating system's.
RECURSIVE Walk(_, _, _)
Walk(t, d, root) ==
    LET entries == SortedSeq(Children(t, d))
        IsDirEntry(c) == t.kind[c] \in {"dir", "dirlink"}
        IsFileEntry(c) == ~IsDirEntry(c)
        Matches(c) == IsFileEntry(c) /\ IsYamlName(t.name[c])
        Descend(c) == t.kind[c] = "dir"
        files == SelectSeq(entries, Matches)
        subdirs == SelectSeq(entries, Descend)
    IN  [i \in 1..Len(files) |-> PathJoin(root, t.name[files[i]])]
        \o Flatten([i \in 1..Len(subdirs) |->
                      Walk(t, subdirs[i], PathJoin(root, t.name[subdirs[i]]))])

find_yaml_files(t) == Walk(t, 0, <<>>)

(***************************************************************************)
(* Scanner reports and generate_summary_markdown                           *)
(* A JSON object is a record whose keys are optional values; a key that is *)
(* absent is None, a key that is present is Some(value). A value that is   *)
(* a number or a text x is JVal(x), the value null is JNull.               *)
(***************************************************************************)
JNull == {}
JVal(x) == {x}
Key(x) == Some(JVal(x))
NullKey == Some(JNull)

\* f"{value}" of a text or null
FormatText(v) == IF v = JNull THEN "None" ELSE The(v)

\* f"{value}" of a number or null
FormatNumber(v) == IF v = JNull THEN "None" ELSE ToString(The(v))

\* bool(value) of a text or null
Truthy(v) == v # JNull /\ The(v) # ""

\* An element of failed_checks: an object, or a value that is no object
\* (a text, a number, a list, null).
FullCheck == [object |-> TRUE,
              check_id |-> Key("CKV_K8S_8"), check_name |-> Key("Liveness Probe"),
              file_path |-> Key("/pod.yaml"), resource |-> Key("Pod.default.web"),
              severity |-> Key("HIGH"), guideline |-> Key("https://docs/8")]

FalsyCheck == [object |-> TRUE,
               check_id |-> Key("CKV_K8S_9"), check_name |-> Key("Readiness Probe"),
               file_path |-> Key("/pod.yaml"), resource |-> Key("Pod.default.web"),
               severity |-> Key(""), guideline |-> Key("")]

BareCheck == [object |-> TRUE,
              check_id |-> None, check_name |-> None, file_path |-> None,
              resource |-> None, severity |-> None, guideline |-> None]

NullCheck == [object |-> TRUE,
              check_id |-> NullKey, check_name |-> NullKey, file_path |-> NullKey,
              resource |-> NullKey, severity |-> NullKey, guideline |-> NullKey]

NonObjectCheck == [BareCheck EXCEPT !.object = FALSE]

FailedCheckSamples == {FullCheck, FalsyCheck, BareCheck, NullCheck, NonObjectCheck}
PassedCheckSamples == {FullCheck}

SeqsUpTo(S, n) == UNION {[1..k -> S] : k \in 0..n}
Opt(S) == {None} \cup {Some(x) : x \in S}

\* The value of the key failed_checks: a list, or a value that is no list:
\* "falsy" is null, 0, false, "" or {}; "number" is a number other than 0 or
\* true; "text" is a text or an object that is not empty.
ListValue(items) == [kind |-> "list", items |-> items]
NonListValue(kind) == [kind |-> kind, items |-> <<>>]

FailedChecksValues ==
    {ListValue(s) : s \in SeqsUpTo(FailedCheckSamples, MaxChecks)}
    \cup {NonListValue(k) : k \in {"falsy", "number", "text"}}

\* The value of the key results: an object, or a value that is no object.
ResultsObjects == [object : {TRUE},
                   failed_checks : Opt(FailedChecksValues),
                   passed_checks : Opt(SeqsUpTo(PassedCheckSamples, MaxChecks))]

NonObjectResults == [object |-> FALSE, failed_checks |-> None, passed_checks |-> None]

ResultsValues == ResultsObjects \cup {NonObjectResults}

\* The value of the key summary: an object, or a value that is no object.
SummaryNumbers == {JNull} \cup {JVal(n) : n \in 0..MaxChecks}

SummaryObjects == [object : {TRUE},
                   passed : Opt(SummaryNumbers), failed : Opt(SummaryNumbers),
                   skipped : Opt({JVal(1)}), parsing_errors : Opt({JVal(1)}),
                   resource_count : Opt({JVal(1)}),
                   checkov_version : Opt({JVal("3.2.0")})]

NoSummaryKeys == [object |-> TRUE, passed |-> None, failed |-> None, skipped |-> None,
                  parsing_errors |-> None, resource_count |-> None,
                  checkov_version |-> None]

NonObjectSummary == [NoSummaryKeys EXCEPT !.object = FALSE]

SummaryValues == SummaryObjects \cup {NonObjectSummary}

Reports == [results : Opt(ResultsValues), summary : Opt(SummaryValues)]

EmptyReport == [results |-> None, summary |-> None]

\* The content of a report file: text that json.load rejects, JSON that is
\* no object (a list, null, a number, a text), or a JSON object.
JsonContents == {[valid |-> FALSE, object |-> FALSE, data |-> EmptyReport],
                 [valid |-> TRUE, object |-> FALSE, data |-> EmptyReport]}
                \cup {[valid |-> TRUE, object |-> TRUE, data |-> r] : r \in Reports}

\* try: open(json_path); json.load(f)  except Exception: return
\* `file` is the optional content found at json_path; the value loaded is
\* an object or not.
ReadJson(file) == IF file = None \/ ~The(file).valid THEN None
                  ELSE Some([object |-> The(file).object, data |-> The(file).data])

\* Whether data.get("results", {}).get("failed_checks", []) raises
\* AttributeError: data or the value of results is no object.
FailedChecksRaises(loaded) ==
    \/ ~loaded.object
    \/ loaded.data.results # None /\ ~The(loaded.data.results).object

\* data.get("results", {}).get("failed_checks", [])
FailedChecksOf(data) ==
    IF data.results = None THEN ListValue(<<>>)
    ELSE Get(The(data.results).failed_checks, ListValue(<<>>))

\* data.get("summary", {})
SummaryFieldsOf(data) == Get(data.summary, NoSummaryKeys)

\* summary.get('failed', 0)
FailedNumber(data) == Get(SummaryFieldsOf(data).failed, JVal(0))

\* summary.get('passed', 0)
PassedNumber(data) == Get(SummaryFieldsOf(data).passed, JVal(0))

\* The metadata lines after the timestamp.
MetadataOf(data) ==
    LET summary == SummaryFieldsOf(data)
    IN  [passed |-> FormatNumber(PassedNumber(data)),
         failed |-> FormatNumber(FailedNumber(data)),
         skipped |-> FormatNumber(Get(summary.skipped, JVal(0))),
         parsing_errors |-> FormatNumber(Get(summary.parsing_errors, JVal(0))),
         resource_count |-> FormatNumber(Get(summary.resource_count, JVal(0))),
         checkov_version |-> FormatText(Get(summary.checkov_version, JVal("N/A")))]

\* One "###" entry of the Failed Checks Detail section.
DetailEntry(check) ==
    LET severity == Get(check.severity, JNull)
        guideline == Get(check.guideline, JNull)
    IN  [check_id |-> FormatText(Get(check.check_id, JVal("UNKNOWN"))),
         check_name |-> FormatText(Get(check.check_name, JVal("Unnamed Check"))),
         file_path |-> FormatText(Get(check.file_path, JVal("unknown"))),
         resource |-> FormatText(Get(check.resource, JVal("unknown"))),
         severity |-> IF Truthy(severity) THEN FormatText(severity) ELSE "N/A",
         guideline |-> IF Truthy(guideline) THEN Some(FormatText(guideline)) ELSE None]

\* if failed_checks:
IsTruthyValue(v) == IF v.kind = "list" THEN v.items # <<>> ELSE v.kind # "falsy"

\* for check in failed_checks: the number of entries written before
\* check.get raises on an element that is no object.
RECURSIVE ObjectPrefix(_)
ObjectPrefix(items) ==
    IF items = <<>> \/ ~Head(items).object THEN 0
    ELSE 1 + ObjectPrefix(Tail(items))

\* The exception that ends the detail loop, if any: TypeError when the value
\* cannot be iterated, AttributeError when an element has no get.
DetailRaises(v) ==
    CASE v.kind = "number" -> Some("TypeError")
      [] v.kind = "text" -> Some("AttributeError")
      [] v.kind = "list" /\ ObjectPrefix(v.items) < Len(v.items) -> Some("AttributeError")
      [] OTHER -> None

\* The Markdown file as the with-block leaves it for `data`: the header with
\* the timestamp; the metadata lines, unless the value of summary is no object
\* (summary.get raises); the detail heading and the entries written before
\* an exception, if any, ended the loop.
SummaryOf(data, timestamp) ==
    LET failed_checks == FailedChecksOf(data)
        summary == SummaryFieldsOf(data)
        shown == IF summary.object /\ failed_checks.kind = "list"
                 THEN SubSeq(failed_checks.items, 1, ObjectPrefix(failed_checks.items))
                 ELSE <<>>
    IN  [timestamp |-> timestamp,
         metadata |-> IF summary.object THEN Some(MetadataOf(data)) ELSE None,
         has_detail |-> summary.object /\ IsTruthyValue(failed_checks),
         detail |-> [i \in 1..Len(shown) |-> DetailEntry(shown[i])],
         complete |-> summary.object /\ DetailRaises(failed_checks) = None]

\* The exception raised while the file is written, if any.
WriteRaises(data) ==
    IF ~SummaryFieldsOf(data).object THEN Some("AttributeError")
    ELSE DetailRaises(FailedChecksOf(data))

\* generate_summary_markdown as a function of the file found at json_path:
\* whether the read failure is logged, the uncaught exception if any, and the
\* Markdown file left behind if any.
generate_summary_markdown(file, timestamp) ==
    LET loaded == ReadJson(file)
    IN  IF loaded = None
        THEN [error_logged |-> TRUE, raises |-> None, file |-> None]
        ELSE IF FailedChecksRaises(The(loaded))
        THEN [error_logged |-> FALSE, raises |-> Some("AttributeError"), file |-> None]
        ELSE [error_logged |-> FALSE,
              raises |-> WriteRaises(The(loaded).data),
              file |-> Some(SummaryOf(The(loaded).data, timestamp))]

(***************************************************************************)
(* The command flow of main()                                              *)
(***************************************************************************)
Variants == {"kubernetes", "crossplane"}

Args == [dry_run : BOOLEAN, render_only : BOOLEAN, render : BOOLEAN, debug : BOOLEAN]

\* target: what lies at the --target path; kustomize, checkov: whether
\* the executable is on PATH; LOG_LEVEL: the environment variable.
\* LOG_LEVEL is None when the variable is not set, else Some(text), the text
\* a sequence of characters. A character outside ASCII is written as its
\* code point: "U+0131" is the dotless i, "U+017F" the long s, "U+00DF" the
\* sharp s, "U+FB06" the ligature st, "U+00E9" the e with acute accent.
LogLevelTexts ==
    { <<"E", "R", "R", "O", "R">>,                              \* ERROR
      <<"e", "r", "r", "o", "r">>,                              \* error
      <<"C", "R", "I", "T", "I", "C", "A", "L">>,               \* CRITICAL
      <<"c", "r", "U+0131", "t", "U+0131", "c", "a", "l">>,     \* critical, dotless
      <<"n", "o", "t", "U+017F", "e", "t">>,                    \* notset, long s
      <<"b", "o", "g", "u", "s">>,                              \* bogus
      <<"U+00DF">>,                                             \* sharp s
      <<"U+00E9">>,                                             \* e acute
      <<>>,                                                     \* set, empty
      <<"B", "A", "S", "I", "C", "_", "F", "O", "R", "M", "A", "T">>,
      <<"b", "a", "s", "i", "c", "_", "f", "o", "r", "m", "a", "t">>,
      <<"_", "U+FB06", "y", "l", "e", "s">> }                   \* _styles, ligature

Envs == [target : {"missing", "file", "dir"}, kustomize : BOOLEAN,
         checkov : BOOLEAN, LOG_LEVEL : Opt(LogLevelTexts)]

\* The trees the command flow is run on.
ManifestTree ==
    AddEntry(AddEntry(AddEntry(EmptyTree, 0, "dir", <<"y", "a", "m", "l">>),
                      1, "file", <<"a">> \o DotYaml),
             0, "file", <<"a">> \o DotYaml \o <<"~">>)

TargetTrees == {EmptyTree, ManifestTree}

\* The reports the scanner writes in the command flow.
CleanReport ==
    [results |-> Some([object |-> TRUE,
                       failed_checks |-> Some(ListValue(<<>>)),
                       passed_checks |-> Some(<<FullCheck>>)]),
     summary |-> Some([NoSummaryKeys EXCEPT !.passed = Key(1), !.failed = Key(0),
                                            !.resource_count = Key(1),
                                            !.checkov_version = Key("3.2.0")])]

FailingReport ==
    [results |-> Some([object |-> TRUE,
                       failed_checks |-> Some(ListValue(<<FullCheck>>)),
                       passed_checks |-> Some(<<>>)]),
     summary |-> Some([NoSummaryKeys EXCEPT !.passed = Key(0), !.failed = Key(1),
                                            !.resource_count = Key(1),
                                            !.checkov_version = Key("3.2.0")])]

\* A report whose summary is null.
NullSummaryReport == [FailingReport EXCEPT !.summary = Some(NonObjectSummary)]

\* A report whose second failed check is a text.
OddCheckReport ==
    [FailingReport EXCEPT !.results =
        Some([object |-> TRUE,
              failed_checks |-> Some(ListValue(<<FullCheck, NonObjectCheck>>)),
              passed_checks |-> Some(<<>>)])]

\* What a scanner run leaves at checkov_output/results_json.json: nothing, text
\* that is no JSON, JSON that is no object, or a report.
ScannerOutputs ==
    {None,
     Some([valid |-> FALSE, object |-> FALSE, data |-> EmptyReport]),
     Some([valid |-> TRUE, object |-> FALSE, data |-> EmptyReport]),
     Some([valid |-> TRUE, object |-> TRUE, data |-> CleanReport]),
     Some([valid |-> TRUE, object |-> TRUE, data |-> FailingReport]),
     Some([valid |-> TRUE, object |-> TRUE, data |-> NullSummaryReport]),
     Some([valid |-> TRUE, object |-> TRUE, data |-> OddCheckReport])}

ScannerExitCodes == {0, 1, 2}

Times == 0..MaxTime

\* datetime.now(): the clock never runs backwards.
ClockReads(t) == {u \in Times : t <= u /\ u <= t + 1}

\* Files carry who wrote them: "this" invocation or an "earlier" one.
EmptyFs == [renderDirs |-> {},
            manifest |-> [t \in Times |-> None],
            checkovDir |-> FALSE,
            report |-> None,
            summary |-> [t \in Times |-> None]]

AgeFile(f) == IF f = None THEN None ELSE Some([The(f) EXCEPT !.by = "earlier"])
AgeSummary(f) ==
    IF f = None THEN None ELSE Some([The(f) EXCEPT !.by = "earlier", !.of = "earlier"])

\* The working directory as the next invocation finds it.
Age(f) == [f EXCEPT !.manifest = [t \in Times |-> AgeFile(f.manifest[t])],
                    !.report = AgeFile(f.report),
                    !.summary = [t \in Times |-> AgeSummary(f.summary[t])]]

(***************************************************************************)
(* Logging                                                                 *)
(***************************************************************************)
\* The numeric levels of the logging module, by the name a record is
\* logged at.
LevelNo(level) == CASE level = "DEBUG" -> 10
                    [] level = "INFO" -> 20
                    [] level = "WARNING" -> 30
                    [] level = "ERROR" -> 40
                    [] level = "CRITICAL" -> 50

LowerLetters == <<"a", "b", "c", "d", "e", "f", "g", "h", "i", "j", "k", "l", "m",
                  "n", "o", "p", "q", "r", "s", "t", "u", "v", "w", "x", "y", "z">>
UpperLetters == <<"A", "B", "C", "D", "E", "F", "G", "H", "I", "J", "K", "L", "M",
                  "N", "O", "P", "Q", "R", "S", "T", "U", "V", "W", "X", "Y", "Z">>

\* The characters outside ASCII whose upper case is made of ASCII letters.
UnicodeToAscii ==
    {<<"U+00DF", <<"S", "S">>>>,       \* sharp s
     <<"U+0131", <<"I">>>>,            \* dotless i
     <<"U+017F", <<"S">>>>,            \* long s
     <<"U+FB00", <<"F", "F">>>>,       \* ligature ff
     <<"U+FB01", <<"F", "I">>>>,       \* ligature fi
     <<"U+FB02", <<"F", "L">>>>,       \* ligature fl
     <<"U+FB03", <<"F", "F", "I">>>>,  \* ligature ffi
     <<"U+FB04", <<"F", "F", "L">>>>,  \* ligature ffl
     <<"U+FB05", <<"S", "T">>>>,       \* ligature long s t
     <<"U+FB06", <<"S", "T">>>>}       \* ligature st

\* The characters outside ASCII of the texts modelled whose upper case is
\* another character outside ASCII.
UnicodeToUnicode == {<<"U+00E9", <<"U+00C9">>>>}  \* e acute

\* str.upper() of one character: the characters it becomes. The upper case of
\* any other character outside ASCII lies outside ASCII.
UpperChar(c) ==
    IF \E i \in 1..Len(LowerLetters) : LowerLetters[i] = c
    THEN <<UpperLetters[CHOOSE i \in 1..Len(LowerLetters) : LowerLetters[i] = c]>>
    ELSE IF \E m \in UnicodeToAscii \cup UnicodeToUnicode : m[1] = c
    THEN (CHOOSE m \in UnicodeToAscii \cup UnicodeToUnicode : m[1] = c)[2]
    ELSE <<c>>

\* str.upper()
Upper(text) == Flatten([i \in 1..Len(text) |-> UpperChar(text[i])])

\* getattr(logging, log_level, logging.INFO): the attribute of the logging
\* module the text names, logging.INFO when it names none. The attributes
\* whose name is its own upper case are the levels, the text BASIC_FORMAT
\* and the dictionary _STYLES.
IntAttr(n) == [type |-> "int", value |-> n]
LevelAttr(text) ==
    CASE text = <<"D", "E", "B", "U", "G">> -> IntAttr(LevelNo("DEBUG"))
      [] text = <<"I", "N", "F", "O">> -> IntAttr(LevelNo("INFO"))
      [] text = <<"W", "A", "R", "N", "I", "N", "G">> -> IntAttr(LevelNo("WARNING"))
      [] text = <<"W", "A", "R", "N">> -> IntAttr(LevelNo("WARNING"))
      [] text = <<"E", "R", "R", "O", "R">> -> IntAttr(LevelNo("ERROR"))
      [] text = <<"C", "R", "I", "T", "I", "C", "A", "L">> -> IntAttr(LevelNo("CRITICAL"))
      [] text = <<"F", "A", "T", "A", "L">> -> IntAttr(LevelNo("CRITICAL"))
      [] text = <<"N", "O", "T", "S", "E", "T">> -> IntAttr(0)
      [] text = <<"B", "A", "S", "I", "C", "_", "F", "O", "R", "M", "A", "T">>
           -> [type |-> "str", value |-> 0]
      [] text = <<"_", "S", "T", "Y", "L", "E", "S">> -> [type |-> "dict", value |-> 0]
      [] OTHER -> IntAttr(LevelNo("INFO"))

\* logging.basicConfig(level=attr), which sets the level of the root logger:
\* an integer is taken as the level; a text that is no level name raises
\* ValueError (BASIC_FORMAT is a format, not a level name); anything else
\* raises TypeError.
BasicConfig(attr) ==
    CASE attr.type = "int" -> [raises |-> None, level |-> attr.value]
      [] attr.type = "str" -> [raises |-> Some("ValueError"), level |-> 0]
      [] OTHER -> [raises |-> Some("TypeError"), level |-> 0]

\* The default of os.environ.get("LOG_LEVEL", ...): "INFO" in
\* src/kubernetes/scan.py, "WARNING" in src/kubernetes-crossplane/scan.py.
DefaultLevelText(v) ==
    IF v = "kubernetes" THEN <<"I", "N", "F", "O">>
    ELSE <<"W", "A", "R", "N", "I", "N", "G">>

\* configure_logging: the exception it ends with, if any, else the numeric
\* level of the root logger. The text of LOG_LEVEL (or the default) is
\* upper-cased; --debug overrides it.
configure_logging(v, debug, LOG_LEVEL) ==
    LET log_level == IF debug THEN <<"D", "E", "B", "U", "G">>
                     ELSE Upper(Get(LOG_LEVEL, DefaultLevelText(v)))
    IN  BasicConfig(LevelAttr(log_level))

\* The level of the root logger once it is configured.
LogLevel == configure_logging(variant, args.debug, env.LOG_LEVEL).level

\* logging.<level>(msg): recorded when the logger's level lets it through.
Emit(l, level, msg) ==
    IF LevelNo(level) >= LogLevel
    THEN Append(l, [level |-> level, msg |-> msg]) ELSE l

RECURSIVE EmitAll(_, _, _)
EmitAll(l, level, msgs) ==
    IF msgs = <<>> THEN l ELSE EmitAll(Emit(l, level, Head(msgs)), level, Tail(msgs))

Logged(level, msg) == \E i \in 1..Len(log) : log[i].level = level /\ log[i].msg = msg
LoggedAt(level) == \E i \in 1..Len(log) : log[i].level = level

(***************************************************************************)
(* Steps                                                                   *)
(***************************************************************************)
Entered(e) == Count(events, e)

\* sys.exit(code), or the interpreter ending after an uncaught exception
Exit(code) == /\ pc' = "exited"
              /\ exitCode' = Some(code)

\* A plausible slip: an existing path of any kind is accepted.
IsDirAnyPath(e) == e.target # "missing"

\* os.path.isdir(target_path)
IsDir(e) == e.target = "dir"

\* main: the branch taken after validation (the order of the tests on
\* args.render_only, args.render and, after file discovery, args.dry_run).
\* A plausible slip: the --render branch scans without rendering first.
AfterValidateScanUnrendered(a) ==
    IF a.render_only THEN "render" ELSE IF a.render THEN "scan" ELSE "find"

AfterValidate(a) ==
    IF a.render_only THEN "render" ELSE IF a.render THEN "render" ELSE "find"

\* main: what follows a successful render_kustomize.
AfterRender(a) == IF a.render_only THEN "exit0" ELSE "scan"

\* main: what follows find_yaml_files.
AfterFind(a) == IF a.dry_run THEN "dry_run" ELSE "scan"

\* main: configure_logging(debug=args.debug). An exception of
\* logging.basicConfig is caught by nothing: the interpreter prints the
\* traceback and ends with status 1 before the target is looked at.
ConfigureLogging ==
    /\ pc = "configure"
    /\ LET raises == configure_logging(variant, args.debug, env.LOG_LEVEL).raises
       IN  IF raises # None
           THEN /\ stderr' = Append(stderr, The(raises))
                /\ Exit(1)
           ELSE /\ pc' = "validate"
                /\ UNCHANGED <<stderr, exitCode>>
    /\ UNCHANGED <<variant, args, env, tree, yaml_files, now, fs, fsStart,
                   output_dir, rc, log, events, json_data, md>>

\* validate_target_directory, and the debug line of main that follows it
ValidateTargetDirectory ==
    /\ pc = "validate"
    /\ events' = Append(events, "validate")
    /\ IF ~IsDir(env)
       THEN /\ log' = Emit(log, "ERROR", "target is not a directory")
            /\ Exit(1)
       ELSE /\ log' = Emit(log, "DEBUG", "arguments parsed")
            /\ pc' = AfterValidate(args)
            /\ UNCHANGED exitCode
    /\ UNCHANGED <<variant, args, env, tree, yaml_files, now, fs, fsStart,
                   output_dir, rc, stderr, json_data, md>>

\* render_kustomize up to the test for the executable: the output directory is
\* made first.
RenderKustomizeSetup ==
    /\ pc = "render"
    /\ events' = Append(events, "render")
    /\ \E t \in ClockReads(now) :
         /\ now' = t
         /\ output_dir' = Some(t)
         /\ fs' = [fs EXCEPT !.renderDirs = @ \cup {t}]
    /\ IF ~env.kustomize
       THEN /\ log' = Emit(log, "ERROR", "kustomize not found")
            /\ Exit(1)
       ELSE /\ pc' = "kustomize"
            /\ UNCHANGED <<log, exitCode>>
    /\ UNCHANGED <<variant, args, env, tree, yaml_files, fsStart, rc, stderr,
                   json_data, md>>

\* How main goes on after render_kustomize returned the manifest path.
ContinueAfterRender ==
    IF AfterRender(args) = "exit0"
    THEN /\ log' = Emit(Emit(log, "DEBUG", "rendered output saved"),
                        "INFO", "render-only mode complete")
         /\ Exit(0)
    ELSE /\ log' = Emit(log, "DEBUG", "rendered output saved")
         /\ pc' = "scan"
         /\ UNCHANGED exitCode

\* A plausible slip: check=True is left out, so that no exit code raises.
KustomizeRaisesNever(ok) == FALSE

\* subprocess.run(..., check=True): CalledProcessError is raised when the
\* renderer returns a non-zero exit code.
KustomizeRaises(ok) == ~ok

\* render_kustomize from open(output_file, "w") on: the file is created (or
\* truncated) before the renderer runs and receives its standard output.
RenderKustomizeBuild ==
    /\ pc = "kustomize"
    /\ \E ok \in BOOLEAN :
         /\ fs' = [fs EXCEPT !.manifest[The(output_dir)] =
                                Some([by |-> "this", complete |-> ok])]
         /\ events' = IF ok THEN events \o <<"kustomize", "kustomize_ok">>
                      ELSE Append(events, "kustomize")
         /\ IF KustomizeRaises(ok)
            THEN /\ log' = Emit(log, "ERROR", "kustomize rendering failed")
                 /\ Exit(1)
            ELSE ContinueAfterRender
    /\ UNCHANGED <<variant, args, env, tree, yaml_files, now, fsStart,
                   output_dir, rc, stderr, json_data, md>>

\* main: yaml_files = find_yaml_files(args.target)
FindYamlFiles ==
    /\ pc = "find"
    /\ events' = Append(events, "find")
    /\ yaml_files' = find_yaml_files(tree)
    /\ pc' = AfterFind(args)
    /\ UNCHANGED <<variant, args, env, tree, now, fs, fsStart, output_dir, rc,
                   exitCode, log, stderr, json_data, md>>

\* main: the dry-run listing
DryRun ==
    /\ pc = "dry_run"
    /\ events' = Append(events, "dry_run")
    /\ log' = Emit(EmitAll(Emit(log, "INFO", "dry run: files discovered"),
                           "INFO", [i \in 1..Len(yaml_files) |-> "dry run: file"]),
                   "INFO", "dry run: total")
    /\ Exit(0)
    /\ UNCHANGED <<variant, args, env, tree, yaml_files, now, fs, fsStart,
                   output_dir, rc, stderr, json_data, md>>

\* run_checkov_scan up to the subprocess call
RunCheckovSetup ==
    /\ pc = "scan"
    /\ events' = Append(events, "scan")
    /\ fs' = [fs EXCEPT !.checkovDir = TRUE]
    /\ log' = IF variant = "crossplane"
              THEN Emit(log, "INFO", "checkov output path") ELSE log
    /\ pc' = "checkov"
    /\ UNCHANGED <<variant, args, env, tree, yaml_files, now, fsStart,
                   output_dir, rc, exitCode, stderr, json_data, md>>

\* subprocess.run(cmd) when no checkov executable is on PATH: it raises
\* FileNotFoundError, which nothing catches; the interpreter prints the
\* traceback and ends with status 1.
CheckovNotFound ==
    /\ pc = "checkov"
    /\ ~env.checkov
    /\ stderr' = Append(stderr, "FileNotFoundError")
    /\ Exit(1)
    /\ UNCHANGED <<variant, args, env, tree, yaml_files, now, fs, fsStart,
                   output_dir, rc, log, events, json_data, md>>

\* What follows the subprocess call in run_checkov_scan.
AfterCheckov(v) == IF v = "kubernetes" THEN "summary" ELSE "return"

\* subprocess.run(cmd) with checkov installed, and the log lines after it
CheckovRun ==
    /\ pc = "checkov"
    /\ env.checkov
    /\ \E code \in ScannerExitCodes, out \in ScannerOutputs :
         /\ rc' = Some(code)
         /\ fs' = IF out = None THEN fs
                  ELSE [fs EXCEPT !.report =
                          Some([by |-> "this", valid |-> The(out).valid,
                                object |-> The(out).object,
                                data |-> The(out).data])]
         /\ log' = Emit(IF code = 0
                        THEN Emit(log, "INFO", "scan completed, no violations")
                        ELSE Emit(log, "WARNING", "checkov completed with violations"),
                        "INFO", "json report")
    /\ events' = events \o <<"checkov", "checkov_returned">>
    /\ pc' = AfterCheckov(variant)
    /\ UNCHANGED <<variant, args, env, tree, yaml_files, now, fsStart,
                   output_dir, exitCode, stderr, json_data, md>>

\* How run_checkov_scan goes on after generate_summary_markdown: it returns
\* to main, unless an exception, caught by nothing, ended the interpreter
\* with a traceback and status 1.
AfterSummary(result) ==
    IF result.raises # None
    THEN /\ stderr' = Append(stderr, The(result.raises))
         /\ Exit(1)
    ELSE /\ pc' = "return"
         /\ UNCHANGED <<stderr, exitCode>>

\* generate_summary_markdown(json_file, output_dir), called by run_checkov_scan
GenerateSummaryMarkdown ==
    /\ pc = "summary"
    /\ \E t1 \in ClockReads(now) : \E t2 \in ClockReads(t1) :
         LET result == generate_summary_markdown(fs.report, t1)
         IN  /\ IF result.file = None
                THEN /\ events' = Append(events, "summary")
                     /\ UNCHANGED <<fs, now>>
                ELSE /\ now' = t2
                     /\ fs' = [fs EXCEPT !.summary[t2] =
                                 Some([by |-> "this", of |-> The(fs.report).by,
                                       md |-> The(result.file)])]
                     /\ events' = IF result.raises = None
                                  THEN events \o <<"summary", "summary_written">>
                                  ELSE Append(events, "summary")
             /\ log' = IF result.error_logged
                       THEN Emit(log, "ERROR", "failed to read json report")
                       ELSE IF result.raises = None
                       THEN Emit(log, "INFO", "summary markdown generated")
                       ELSE log
             /\ AfterSummary(result)
    /\ UNCHANGED <<variant, args, env, tree, yaml_files, fsStart, output_dir,
                   rc, json_data, md>>

\* The exit status after run_checkov_scan returned.
\* main: sys.exit(0) after the scan of the rendered manifest, or the end of
\* main after the scan of the target directory
StatusAfterScan(code) == 0

MainReturn ==
    /\ pc = "return"
    /\ Exit(StatusAfterScan(The(rc)))
    /\ UNCHANGED <<variant, args, env, tree, yaml_files, now, fs, fsStart,
                   output_dir, rc, log, stderr, events, json_data, md>>

\* What an invocation starts from: parsed arguments, the environment, and the
\* tree below the target when the target is a directory.
Invocations ==
    {x \in Args \X Envs \X TargetTrees : x[2].target # "dir" => x[3] = EmptyTree}

NoArgs == [dry_run |-> FALSE, render_only |-> FALSE, render |-> FALSE, debug |-> FALSE]
NoEnv == [target |-> "missing", kustomize |-> FALSE, checkov |-> FALSE,
          LOG_LEVEL |-> None]

\* No process is running: nothing but the working directory and the clock
\* is left of an invocation.
NoProcess ==
    /\ args = NoArgs
    /\ env = NoEnv
    /\ tree = EmptyTree
    /\ yaml_files = <<>>
    /\ output_dir = None
    /\ rc = None
    /\ exitCode = None
    /\ log = <<>>
    /\ stderr = <<>>
    /\ events = <<>>

\* The process is gone; the files it wrote are now those of an earlier
\* invocation.
ProcessEnds ==
    /\ pc = "exited"
    /\ pc' = "idle"
    /\ args' = NoArgs
    /\ env' = NoEnv
    /\ tree' = EmptyTree
    /\ yaml_files' = <<>>
    /\ output_dir' = None
    /\ rc' = None
    /\ exitCode' = None
    /\ log' = <<>>
    /\ stderr' = <<>>
    /\ events' = <<>>
    /\ fs' = Age(fs)
    /\ fsStart' = Age(fs)
    /\ UNCHANGED <<variant, now, json_data, md>>

\* The invocations that follow one another in one working directory:
\* without --debug; the variable LOG_LEVEL is not set, or names an attribute
\* that is no level.
RunInvocations ==
    {x \in Invocations :
       /\ ~x[1].debug
       /\ x[2].LOG_LEVEL \in {None, Some(<<"B", "A", "S", "I", "C", "_",
                                            "F", "O", "R", "M", "A", "T">>)}}

\* main: parse_args of an invocation in the working directory, some time
\* after the one before.
Invoke ==
    /\ pc = "idle"
    /\ \E x \in RunInvocations :
         /\ args' = x[1]
         /\ env' = x[2]
         /\ tree' = x[3]
    /\ \E t \in ClockReads(now) : now' = t
    /\ pc' = "configure"
    /\ UNCHANGED <<variant, yaml_files, fs, fsStart, output_dir, rc, exitCode,
                   log, stderr, events, json_data, md>>

\* A working directory an earlier invocation has left behind: a render and a
\* scan in second 0 (the summary only where the tool writes one).
LeftoverFs(v) ==
    [renderDirs |-> {0},
     manifest |-> [t \in Times |->
                     IF t = 0 THEN Some([by |-> "earlier", complete |-> TRUE]) ELSE None],
     checkovDir |-> TRUE,
     report |-> Some([by |-> "earlier", valid |-> TRUE, object |-> TRUE,
                      data |-> FailingReport]),
     summary |-> [t \in Times |->
                    IF t = 0 /\ v = "kubernetes"
                    THEN Some([by |-> "earlier", of |-> "earlier",
                               md |-> SummaryOf(FailingReport, 0)])
                    ELSE None]]

StartDirs(v) == {EmptyFs, LeftoverFs(v)}

\* One invocation, after parse_args, in a working directory that is empty
\* or was used before.
Init ==
    /\ variant \in Variants
    /\ \E x \in Invocations :
         /\ args = x[1]
         /\ env = x[2]
         /\ tree = x[3]
    /\ now = 0
    /\ fs \in StartDirs(variant)
    /\ fsStart = fs
    /\ pc = "configure"
    /\ yaml_files = <<>>
    /\ output_dir = None
    /\ rc = None
    /\ exitCode = None
    /\ log = <<>>
    /\ stderr = <<>>
    /\ events = <<>>
    /\ json_data = None
    /\ md = None

Next ==
    \/ ConfigureLogging
    \/ ValidateTargetDirectory
    \/ RenderKustomizeSetup
    \/ RenderKustomizeBuild
    \/ FindYamlFiles
    \/ DryRun
    \/ RunCheckovSetup
    \/ CheckovNotFound
    \/ CheckovRun
    \/ GenerateSummaryMarkdown
    \/ MainReturn

Spec == Init /\ [][Next]_vars

\* Any number of invocations, one after the other, in one working directory
\* that starts empty.
InitRuns ==
    /\ variant \in Variants
    /\ pc = "idle"
    /\ NoProcess
    /\ now = 0
    /\ fs = EmptyFs
    /\ fsStart = EmptyFs
    /\ json_data = None
    /\ md = None

NextRuns ==
    \/ Invoke
    \/ ConfigureLogging
    \/ ValidateTargetDirectory
    \/ RenderKustomizeSetup
    \/ RenderKustomizeBuild
    \/ FindYamlFiles
    \/ DryRun
    \/ RunCheckovSetup
    \/ CheckovNotFound
    \/ CheckovRun
    \/ GenerateSummaryMarkdown
    \/ MainReturn
    \/ ProcessEnds

SpecRuns == InitRuns /\ [][NextRuns]_vars

(***************************************************************************)
(* find_yaml_files on its own                                              *)
(***************************************************************************)
InitFind ==
    /\ variant = "kubernetes"
    /\ pc = "tree"
    /\ tree = EmptyTree
    /\ args = NoArgs
    /\ env = [NoEnv EXCEPT !.target = "dir"]
    /\ yaml_files = <<>>
    /\ output_dir = None
    /\ rc = None
    /\ exitCode = None
    /\ log = <<>>
    /\ stderr = <<>>
    /\ events = <<>>
    /\ now = 0
    /\ fs = EmptyFs
    /\ fsStart = EmptyFs
    /\ json_data = None
    /\ md = None

\* The directory below base_path gains a file, a directory or a link to a
\* directory, until it holds MaxNodes entries.
CreateEntry ==
    /\ pc = "tree"
    /\ tree.n < MaxNodes
    /\ \E p \in 0..tree.n, k \in Kinds, nm \in Names :
         /\ CanAdd(tree, p, nm)
         /\ tree' = AddEntry(tree, p, k, nm)
    /\ UNCHANGED <<variant, pc, args, env, yaml_files, now, fs, fsStart,
                   output_dir, rc, exitCode, log, stderr, events, json_data, md>>

\* yaml_files = find_yaml_files(base_path)
FindApply ==
    /\ pc = "tree"
    /\ yaml_files' = find_yaml_files(tree)
    /\ pc' = "found"
    /\ UNCHANGED <<variant, args, env, tree, now, fs, fsStart, output_dir, rc,
                   exitCode, log, stderr, events, json_data, md>>

NextFind == CreateEntry \/ FindApply

SpecFind == InitFind /\ [][NextFind]_vars

(***************************************************************************)
(* generate_summary_markdown on its own                                    *)
(***************************************************************************)
InitSummary ==
    /\ variant = "kubernetes"
    /\ pc = "fixture"
    /\ json_data \in Opt(JsonContents)
    /\ md = None
    /\ tree = EmptyTree
    /\ args = NoArgs
    /\ env = NoEnv
    /\ yaml_files = <<>>
    /\ output_dir = None
    /\ rc = None
    /\ exitCode = None
    /\ log = <<>>
    /\ stderr = <<>>
    /\ events = <<>>
    /\ now = 0
    /\ fs = EmptyFs
    /\ fsStart = EmptyFs

\* generate_summary_markdown(json_path, output_dir) on a fixture
SummaryApply ==
    /\ pc = "fixture"
    /\ \E t1 \in ClockReads(now) : \E t2 \in ClockReads(t1) :
         LET result == generate_summary_markdown(json_data, t1)
         IN  /\ md' = result.file
             /\ now' = IF result.file = None THEN now ELSE t2
             /\ log' = IF result.error_logged
                       THEN Emit(log, "ERROR", "failed to read json report")
                       ELSE IF result.raises = None
                       THEN Emit(log, "INFO", "summary markdown generated")
                       ELSE log
             /\ stderr' = IF result.raises = None THEN stderr
                          ELSE Append(stderr, The(result.raises))
             /\ pc' = IF result.raises = None THEN "generated" ELSE "raised"
    /\ UNCHANGED <<variant, args, env, tree, yaml_files, fs, fsStart,
                   output_dir, rc, exitCode, events, json_data>>

NextSummary == SummaryApply

SpecSummary == InitSummary /\ [][NextSummary]_vars

(***************************************************************************)
(* Claims                                                                  *)
(***************************************************************************)
Exited == pc = "exited"
ThisInvocation(f) == f # None /\ The(f).by = "this"
OwnManifests == {t \in Times : ThisInvocation(fs.manifest[t])}
OwnSummaries == {t \in Times : ThisInvocation(fs.summary[t])}
Position(e) == Min({i \in 1..Len(events) : events[i] = e})
Before(a, b) == Entered(a) > 0 /\ Entered(b) > 0 /\ Position(a) < Position(b)

\* C1: when the --target path is no existing directory, whatever the flags,
\* the process exits with status 1 no later than right after validation: no
\* stage but the validation is entered, so the renderer and the scanner are
\* never started, and the working directory is left exactly as the
\* invocation found it.
C1_InvalidTargetExits ==
    (env.target # "dir" /\ pc \notin {"configure", "validate"}) =>
        /\ Exited
        /\ exitCode = Some(1)
        /\ events \in {<<>>, <<"validate">>}
        /\ fs = fsStart

C1_Witness ==
    /\ Exited
    /\ events = <<"validate">>
    /\ env.target = "file"
    /\ args.render /\ args.dry_run
    /\ env.kustomize /\ env.checkov
    /\ exitCode = Some(1)
    /\ fsStart = EmptyFs

\* The path of a node below base_path, from its chain of parents.
RECURSIVE NodePath(_, _)
NodePath(t, n) ==
    IF t.parent[n] = 0 THEN <<t.name[n]>>
    ELSE Append(NodePath(t, t.parent[n]), t.name[n])

HasManifestExtension(name) ==
    \E k \in 0..Len(name) : SubSeq(name, k + 1, Len(name)) \in {DotYaml, DotYml}

ManifestPaths(t) ==
    {NodePath(t, n) : n \in {m \in 1..t.n : t.kind[m] = "file"
                                            /\ HasManifestExtension(t.name[m])}}

\* C2: find_yaml_files returns exactly the paths of the files, at any depth
\* below base_path, whose name ends in .yaml or .yml, each of them once;
\* no other file and no directory is returned.
C2_FindsAllAndOnlyManifests ==
    pc = "found" =>
        /\ Range(yaml_files) = ManifestPaths(tree)
        /\ Len(yaml_files) = Cardinality(ManifestPaths(tree))

C2_Witness ==
    /\ pc = "found"
    /\ Len(yaml_files) = 2
    /\ \E i \in 1..2 : Len(yaml_files[i]) = 2
    /\ \E i \in 1..2 : Len(yaml_files[i]) = 1

\* What the report itself contains.
ReportFailed(data) ==
    IF data.results = None \/ The(data.results).failed_checks = None THEN <<>>
    ELSE The(The(data.results).failed_checks).items
ReportPassed(data) ==
    IF data.results = None \/ The(data.results).passed_checks = None THEN <<>>
    ELSE The(The(data.results).passed_checks)

\* C3: for every report generate_summary_markdown can read, the Failed Checks
\* number of the summary is the number of failed checks in the report, which
\* is the number of entries under Failed Checks Detail, and the Passed Checks
\* number is the number of passed checks in the report.
C3_SummaryCountsChecks ==
    (pc = "generated" /\ md # None) =>
        LET written == The(The(md).metadata)
        IN  /\ written.failed = ToString(Len(ReportFailed(The(json_data).data)))
            /\ written.failed = ToString(Len(The(md).detail))
            /\ written.passed = ToString(Len(ReportPassed(The(json_data).data)))

\* Whether the level of the root logger lets records of the level through.
ErrorsShown == LogLevel <= 40
WarningsShown == LogLevel <= 30

MissingToolReached ==
    \/ Entered("render") > 0 /\ ~env.kustomize
    \/ Entered("scan") > 0 /\ ~env.checkov

\* C4: when an invocation reaches a stage whose executable is not installed
\* (kustomize for rendering, checkov for scanning), the error is logged (at
\* a log level that lets errors through), the process exits with status 1
\* and no later stage runs.
C4_MissingToolLoggedAndExits ==
    (Exited /\ MissingToolReached) =>
        /\ ErrorsShown => LoggedAt("ERROR")
        /\ exitCode = Some(1)
        /\ Entered("checkov") = 0
        /\ Entered("summary") = 0

\* C5: once the scanner has returned, its exit code never becomes the exit
\* status of the process: the process ends with status 0 for every scanner
\* exit code, a non-zero code is logged as a warning (when the log level lets
\* warnings through), and src/kubernetes/scan.py still attempts the summary.
C5_ScannerCodeNotPropagated ==
    rc # None =>
        /\ exitCode \in {None, Some(0)}
        /\ Exited => exitCode = Some(0)
        /\ (The(rc) # 0 /\ WarningsShown)
              => Logged("WARNING", "checkov completed with violations")
        /\ The(rc) = 0 => ~LoggedAt("WARNING")
        /\ (Exited /\ variant = "kubernetes") => Entered("summary") = 1

\* C6: with --dry-run set, whatever --render, --render-only and --debug are,
\* the scanner is never invoked and no report or summary is written.
C6_DryRunNeverScans ==
    args.dry_run =>
        /\ Entered("checkov") = 0
        /\ ~ThisInvocation(fs.report)
        /\ OwnSummaries = {}

\* C7: with --render-only set and a valid target directory, whatever --render
\* and --dry-run are, the render stage runs exactly once (and the renderer at
\* most once), the scanner is never invoked, file discovery and summary
\* generation do not run, and the process exits with status 0 when the
\* rendering succeeded.
C7_RenderOnly ==
    (args.render_only /\ env.target = "dir") =>
        /\ Entered("render") <= 1
        /\ Entered("kustomize") <= 1
        /\ Entered("scan") = 0
        /\ Entered("checkov") = 0
        /\ Entered("find") = 0
        /\ Entered("dry_run") = 0
        /\ Entered("summary") = 0
        /\ Exited => /\ Entered("render") = 1
                     /\ Entered("kustomize_ok") = 1 => exitCode = Some(0)

StageRank(e) == CASE e = "validate" -> 1
                  [] e = "render" -> 2
                  [] e = "kustomize" -> 3
                  [] e = "kustomize_ok" -> 4
                  [] e = "find" -> 5
                  [] e = "dry_run" -> 6
                  [] e = "scan" -> 7
                  [] e = "checkov" -> 8
                  [] e = "checkov_returned" -> 9
                  [] e = "summary" -> 10
                  [] e = "summary_written" -> 11

C8_StagesInOrder ==
    /\ \A i, j \in 1..Len(events) :
          i < j => StageRank(events[i]) < StageRank(events[j])
    /\ Entered("checkov") > 0 =>
          /\ env.target = "dir"
          /\ Before("validate", "checkov")
          /\ args.render => Before("kustomize_ok", "checkov")
    /\ Entered("summary") > 0 => Before("checkov_returned", "summary")
    /\ Cardinality(OwnManifests) <= 1
    /\ Cardinality(OwnSummaries) <= 1

C8_ArtifactsNotModified ==
    pc' # "idle" =>
        /\ \A t \in Times :
              /\ ThisInvocation(fs.manifest[t]) => fs'.manifest[t] = fs.manifest[t]
              /\ ThisInvocation(fs.summary[t]) => fs'.summary[t] = fs.summary[t]
        /\ ThisInvocation(fs.report) => fs'.report = fs.report

\* C8: the stages of an invocation run in the order validate, render, list
\* files, scan, summarise, each at most once; the scanner is not invoked
\* before validation succeeded nor, with --render, before the renderer
\* succeeded; the summary is not generated before the scanner returned; and
\* each artifact (manifest, report, summary) is written at most once by an
\* invocation and not changed by it afterwards.
C8_LinearFlow == [](C8_StagesInOrder) /\ [][C8_ArtifactsNotModified]_vars

C8_Witness ==
    /\ Exited
    /\ events = <<"validate", "render", "kustomize", "kustomize_ok", "scan",
                  "checkov", "checkov_returned", "summary", "summary_written">>
    /\ Cardinality(OwnManifests) = 1
    /\ ThisInvocation(fs.report)
    /\ Cardinality(OwnSummaries) = 1

RendererFailed == Entered("kustomize") = 1 /\ Entered("kustomize_ok") = 0
RendererMissing == Entered("render") = 1 /\ ~env.kustomize

FailedRenderStops ==
    (Exited /\ RendererFailed) =>
        /\ exitCode = Some(1)
        /\ Entered("scan") = 0
        /\ Entered("checkov") = 0
        /\ Entered("summary") = 0

\* C9 as stated: a renderer that returns non-zero makes the process exit
\* with status 1 without scan or summary, and this invocation leaves a
\* manifest file only if the renderer succeeded; a failed or missing renderer
\* leaves no manifest file and no output directory behind.
C9_Original ==
    /\ FailedRenderStops
    /\ OwnManifests # {} => Entered("kustomize_ok") = 1
    /\ (Exited /\ (RendererFailed \/ RendererMissing)) =>
          /\ OwnManifests = {}
          /\ fs.renderDirs = fsStart.renderDirs

\* C9, amended: a renderer that returns non-zero makes the process exit with
\* status 1 without scan or summary. The output directory exists as soon as
\* the render stage has started, also when the renderer is missing; the
\* manifest file is created when the renderer is started, so a failed
\* renderer leaves the directory and an incomplete manifest behind, a missing
\* renderer the directory without a manifest; the manifest is complete if
\* and only if the renderer succeeded.
C9_FailedRenderLeavesFiles ==
    /\ FailedRenderStops
    /\ Entered("render") = 1 =>
          /\ output_dir # None
          /\ The(output_dir) \in fs.renderDirs
          /\ OwnManifests \subseteq output_dir
    /\ Entered("render") = 0 => OwnManifests = {}
    /\ (OwnManifests # {}) <=> (Entered("kustomize") = 1)
    /\ \A t \in OwnManifests :
          The(fs.manifest[t]).complete <=> (Entered("kustomize_ok") = 1)
    /\ (Exited /\ RendererMissing) =>
          /\ exitCode = Some(1)
          /\ OwnManifests = {}
          /\ Entered("scan") = 0

C9_Witness ==
    /\ Exited
    /\ RendererFailed
    /\ args.render /\ ~args.render_only
    /\ env.checkov
    /\ exitCode = Some(1)
    /\ OwnManifests = output_dir
    /\ fsStart = EmptyFs

\* C10: over invocations that share a working directory, every summary an
\* invocation writes is built from the report the scanner wrote in that same
\* invocation; when the scanner of the invocation wrote no report, no summary
\* is written.
C10_SummaryOfOwnReport ==
    /\ \A t \in OwnSummaries : The(fs.summary[t]).of = "this"
    /\ ~ThisInvocation(fs.report) => OwnSummaries = {}

====
